---- MODULE Spec2Model ----
(***************************************************************************)
(* Component registry and network-init drain of                            *)
(* pysmartnode/utils/component/__init__.py (ComponentBase).                *)
(*                                                                         *)
(* Components are numbered 1, 2, ... in the order their constructors run,  *)
(* so the number of a component is its position in the registration        *)
(* sequence.  None is the Python None.  Every "await" of the source is a   *)
(* point where the uasyncio scheduler may run another task; the code       *)
(* between two awaits of one coroutine is one atomic action.               *)
(***************************************************************************)
EXTENDS Naturals, Sequences, FiniteSets, Bags

MaxComponents == 3      \* components constructed in one run
MaxRemovals == 2        \* removeComponent calls in one run
MaxPublishes == 2       \* discovery messages published in one run
MaxListLen == 13        \* longest friendly_name list given to PMS5003

None == 0
Ids == 1..MaxComponents
NotAComponent == MaxComponents + 1   \* an object that is no ComponentBase

VARIABLES
    _components,             \* module global: head of the registry chain
    _next_component,         \* attribute of every component object
    _init_queue_start,       \* module global: start pointer of the running drain
    discover,                \* attribute __discover of every component object
    MQTT_DISCOVERY_ENABLED,  \* config.MQTT_DISCOVERY_ENABLED
    constructed,             \* number of ComponentBase objects constructed so far
    joined,                  \* per component: line 59 found a drain in progress
    drains,                  \* the __initNetworkProcess tasks, in creation order
    removals,                \* the removeComponent calls made so far (a bag)
    initOrder,               \* components whose _init_network was invoked, in order
    bus,                     \* per component, the number of _discovery(True)
                             \* and of _discovery(False) calls made on it
    composer,                \* discovery configuration and the messages handed
                             \* to _mqtt.publish by the discovery helpers
    pms                      \* one run of the PMS5003 constructor

vars == <<_components, _next_component, _init_queue_start, discover,
          MQTT_DISCOVERY_ENABLED, constructed, joined, drains, removals, initOrder,
          bus, composer, pms>>

----------------------------------------------------------------------------
(* Registry chain *)

\* The components met by "c = head; while c is not None: c = c._next_component",
\* cut after fuel steps (a chain longer than MaxComponents has a cycle).
RECURSIVE Walk(_, _, _)
Walk(c, nxt, fuel) ==
    IF c = None \/ fuel = 0 THEN <<>> ELSE <<c>> \o Walk(nxt[c], nxt, fuel - 1)

Chain == Walk(_components, _next_component, MaxComponents + 1)

ChainSet == LET ch == Chain IN {ch[i] : i \in DOMAIN ch}

\* __init__, lines 50-55: walk from c to the component whose _next_component
\* is None and link self behind it.
RECURSIVE AppendTail(_, _, _)
AppendTail(c, nxt, self) ==
    IF nxt[c] = None THEN [nxt EXCEPT ![c] = self]
    ELSE AppendTail(nxt[c], nxt, self)

\* __init__, lines 45-55: the registry after self has registered itself.
RegisterPrepend(head, nxt, self) ==
    [head |-> self, nxt |-> [nxt EXCEPT ![self] = head]]

Register(head, nxt, self) ==
    IF head = None
    THEN [head |-> self, nxt |-> [nxt EXCEPT ![self] = None]]
    ELSE [head |-> head, nxt |-> AppendTail(head, [nxt EXCEPT ![self] = None], self)]

\* __init__, line 59: does this constructor start a drain task?
StartsDrainAlways(q) == TRUE

StartsDrainInverted(q) == q # None

StartsDrain(q) == q = None

\* removeComponent, lines 79-89: the loop with predecessor p and cursor c.
\* _next_component of the unlinked component itself is left as it is.
RECURSIVE UnlinkWalk(_, _, _, _, _)
UnlinkWalk(p, c, head, nxt, component) ==
    IF c = None THEN [head |-> head, nxt |-> nxt, found |-> FALSE]
    ELSE IF c = component
         THEN IF p = None
              THEN [head |-> nxt[c], nxt |-> nxt, found |-> TRUE]
              ELSE [head |-> head, nxt |-> [nxt EXCEPT ![p] = nxt[c]], found |-> TRUE]
         ELSE UnlinkWalk(c, nxt[c], head, nxt, component)

UnlinkCutsChain(head, nxt, component) ==
    LET u == UnlinkWalk(None, head, head, nxt, component)
        ch == Walk(head, nxt, MaxComponents + 1)
    IN  IF u.found /\ head # component
        THEN LET p == CHOOSE x \in {ch[i] : i \in DOMAIN ch} : nxt[x] = component
             IN  [u EXCEPT !.nxt = [nxt EXCEPT ![p] = None]]
        ELSE u

UnlinkKeepsHead(head, nxt, component) ==
    LET u == UnlinkWalk(None, head, head, nxt, component)
    IN  [u EXCEPT !.head = head]

Unlink(head, nxt, component) == UnlinkWalk(None, head, head, nxt, component)

\* lines 101 and 119: config.MQTT_DISCOVERY_ENABLED and self.__discover
DiscoveryIgnoresGlobal(enabled, flag) == flag

DiscoveryInverted(enabled, flag) == ~(enabled /\ flag)

DiscoveryWanted(enabled, flag) == enabled /\ flag

----------------------------------------------------------------------------
(* Discovery topic and messages.  A string is the sequence of its pieces;  *)
(* the values put into a format string are pieces without a "/".           *)

Prefixes == {"homeassistant", "ha"}         \* config.MQTT_DISCOVERY_PREFIX
DeviceIDs == {"dev1", "dev2"}               \* sys_vars.getDeviceID()
ComponentTypes == {"sensor", "switch"}
UniqueNames == {"PMS5003_0", "Button0"}
FriendlyNames == {"", "Kitchen"}            \* "" stands for a falsy value

\* str.format with "{!s}" fields: each field takes the next argument.
RECURSIVE format(_, _)
format(template, args) ==
    IF template = <<>> THEN <<>>
    ELSE IF Head(template) = "{!s}"
         THEN <<Head(args)>> \o format(Tail(template), Tail(args))
         ELSE <<Head(template)>> \o format(Tail(template), args)

\* _getDiscoveryTopic, lines 186-188
_getDiscoveryTopicSwapped(component_type, name) ==
    format(<<"{!s}", "/", "{!s}", "/", "{!s}", "/", "{!s}", "/config">>,
           <<composer.prefix, composer.deviceID, component_type, name>>)

_getDiscoveryTopic(component_type, name) ==
    format(<<"{!s}", "/", "{!s}", "/", "{!s}", "/", "{!s}", "/config">>,
           <<composer.prefix, component_type, composer.deviceID, name>>)

\* _composeDiscoveryMsg, lines 165-174: the values handed to
\* DISCOVERY_BASE.format for a component_topic that is no device topic.  The
\* availability and device values are the same in every message and left out.
_composeDiscoveryMsg(component_topic, name, component_type_discovery, friendly_name) ==
    <<component_topic,
      IF friendly_name # "" THEN friendly_name ELSE name,
      composer.deviceID, name, component_type_discovery>>

\* _publishDiscovery, lines 134-139: the arguments of _mqtt.publish
_publishDiscovery(component_type, component_topic, unique_name, discovery_type, friendly_name) ==
    [topic |-> _getDiscoveryTopic(component_type, unique_name),
     msg |-> _composeDiscoveryMsg(component_topic, unique_name, discovery_type,
                                  friendly_name),
     qos |-> 1, retain |-> TRUE]

\* _deleteDiscovery, lines 144-146: the arguments of _mqtt.publish
_deleteDiscovery(component_type, unique_name) ==
    [topic |-> _getDiscoveryTopic(component_type, unique_name),
     msg |-> <<>>, qos |-> 1, retain |-> TRUE]

\* No discovery message has been published.
IdleComposer == [prefix |-> "homeassistant", deviceID |-> "dev1", published |-> <<>>]

----------------------------------------------------------------------------
(* PMS5003.__init__ and its friendly_name argument.  A Python object is a   *)
(* record of the name of its type and its content.                         *)

TYPES ==
    <<"pm10_standard", "pm25_standard", "pm100_standard", "pm10_env", "pm25_env",
      "pm100_env", "particles_03um", "particles_05um", "particles_10um",
      "particles_25um", "particles_50um", "particles_100um">>

ExpectedLen == 12

NoneObject == [type |-> "NoneType", v |-> <<>>]
ListClass == [type |-> "type", v |-> <<"list">>]

\* type(x): the class object of x
type(x) == [type |-> "type", v |-> <<x.type>>]

\* Names a configuration may give.
Custom ==
    <<"n1", "n2", "n3", "n4", "n5", "n6", "n7", "n8", "n9", "n10", "n11", "n12",
      "n13", "n14", "n15", "n16">>

\* The friendly_name arguments: the default None, a str, a dict, and lists
\* of every length up to MaxListLen in two orders.
FriendlyNameArgs ==
    {NoneObject, [type |-> "str", v |-> <<"n1">>], [type |-> "dict", v |-> <<>>]}
        \cup {[type |-> "list", v |-> [i \in 1..n |-> Custom[i]]] : n \in 0..MaxListLen}
        \cup {[type |-> "list", v |-> [i \in 1..n |-> Custom[n + 1 - i]]] :
                 n \in 0..MaxListLen}

\* line 79: len(friendly_name) != 12
WrongLengthOnlyLonger(n) == n > ExpectedLen

WrongLength(n) == n # ExpectedLen

\* TYPES.index(tp), counted from 1
index(seq, x) ==
    CHOOSE i \in DOMAIN seq : seq[i] = x /\ \A j \in 1..(i - 1) : seq[j] # x

\* No PMS5003 is being constructed.
IdlePMS ==
    [arg |-> NoneObject, friendly_name |-> NoneObject, pc |-> "idle",
     warnings |-> <<>>, sensor_types |-> <<>>]

----------------------------------------------------------------------------
(* Construction *)

\* The module globals before any component is constructed.
NoComponents ==
    /\ _components = None
    /\ _next_component = [i \in Ids |-> None]
    /\ _init_queue_start = None
    /\ discover = [i \in Ids |-> FALSE]
    /\ MQTT_DISCOVERY_ENABLED \in BOOLEAN
    /\ constructed = 0
    /\ joined = [i \in Ids |-> FALSE]
    /\ drains = <<>>
    /\ removals = EmptyBag
    /\ initOrder = <<>>
    /\ bus = [i \in Ids |-> [announce |-> 0, tombstone |-> 0]]

Init ==
    /\ NoComponents
    /\ composer = IdleComposer
    /\ pms = IdlePMS

\* ComponentBase.__init__(..., discover=flag): register, then start the drain
\* task if no drain pointer is set.  The constructor has no await.
Construct(flag) ==
    /\ constructed < MaxComponents
    /\ LET self == constructed + 1
           reg == Register(_components, _next_component, self)
       IN  /\ constructed' = self
           /\ _components' = reg.head
           /\ _next_component' = reg.nxt
           /\ discover' = [discover EXCEPT ![self] = flag]
           /\ IF StartsDrain(_init_queue_start)
              THEN /\ _init_queue_start' = self
                   /\ drains' = Append(drains, [pc |-> "created", c |-> None])
                   /\ UNCHANGED joined
              ELSE /\ joined' = [joined EXCEPT ![self] = TRUE]
                   /\ UNCHANGED <<_init_queue_start, drains>>
    /\ UNCHANGED <<MQTT_DISCOVERY_ENABLED, removals, initOrder, bus>>
    /\ UNCHANGED <<composer, pms>>

----------------------------------------------------------------------------
(* The drain task: __initNetworkProcess *)

\* lines 108-112: the loop test with cursor c.  A component is handed to its
\* _init_network hook, which runs up to its first await (asyncLog); at the
\* end of the chain the drain pointer is reset and the task ends.
DrainLoop(t, c) ==
    IF c # None
    THEN /\ drains' = [drains EXCEPT ![t] = [pc |-> "asyncLog", c |-> c]]
         /\ initOrder' = Append(initOrder, c)
         /\ UNCHANGED _init_queue_start
    ELSE /\ drains' = [drains EXCEPT ![t] = [pc |-> "done", c |-> None]]
         /\ _init_queue_start' = None
         /\ UNCHANGED initOrder

\* line 107: the task runs for the first time, c = _init_queue_start.
DrainStart(t) ==
    /\ drains[t].pc = "created"
    /\ DrainLoop(t, _init_queue_start)
    /\ UNCHANGED <<_components, _next_component, discover, MQTT_DISCOVERY_ENABLED,
                   constructed, joined, removals, bus>>
    /\ UNCHANGED <<composer, pms>>

\* _init_network, lines 115-120: asyncLog has returned; _discovery(True) is
\* called when discovery is wanted, otherwise the hook returns and the drain
\* goes on with c._next_component (line 111).
HookLogged(t) ==
    /\ drains[t].pc = "asyncLog"
    /\ LET c == drains[t].c
       IN  IF DiscoveryWanted(MQTT_DISCOVERY_ENABLED, discover[c])
           THEN /\ bus' = [bus EXCEPT ![c].announce = @ + 1]
                /\ drains' = [drains EXCEPT ![t].pc = "discovery"]
                /\ UNCHANGED <<_init_queue_start, initOrder>>
           ELSE /\ DrainLoop(t, _next_component[c])
                /\ UNCHANGED bus
    /\ UNCHANGED <<_components, _next_component, discover, MQTT_DISCOVERY_ENABLED,
                   constructed, joined, removals>>
    /\ UNCHANGED <<composer, pms>>

\* _init_network, lines 120-121, then lines 110-111: _discovery(True) has
\* returned, the hook returns and the drain goes on with c._next_component.
HookDiscovered(t) ==
    /\ drains[t].pc = "discovery"
    /\ DrainLoop(t, _next_component[drains[t].c])
    /\ UNCHANGED <<_components, _next_component, discover, MQTT_DISCOVERY_ENABLED,
                   constructed, joined, removals, bus>>
    /\ UNCHANGED <<composer, pms>>

\* line 109: an await inside the hook raises.  __initNetworkProcess has no
\* try/except, so the exception ends the task; line 112 is not reached.
HookRaises(t) ==
    /\ drains[t].pc \in {"asyncLog", "discovery"}
    /\ drains' = [drains EXCEPT ![t].pc = "failed"]
    /\ UNCHANGED <<_components, _next_component, _init_queue_start, discover,
                   MQTT_DISCOVERY_ENABLED, constructed, joined, removals, initOrder,
                   bus>>
    /\ UNCHANGED <<composer, pms>>

----------------------------------------------------------------------------
(* removeComponent *)

\* The values removeComponent is called with: a name, a component object
\* (registered or not), or an object of another type.
Arguments ==
    [type : {"str"}, v : Ids]
        \cup [type : {"ComponentBase"}, v : 1..constructed]
        \cup [type : {"int"}, v : {NotAComponent}]

\* config.getComponent(name): the registered component of that name, or None.
\* Component i is the only one named i.
getComponent(name) == IF name \in ChainSet THEN name ELSE None

\* lines 70-71: a str argument is replaced by config.getComponent(component).
Resolve(arg) == IF arg.type = "str" THEN getComponent(arg.v) ELSE arg.v

\* line 72: isinstance(component, ComponentBase)
isinstance(component) == component \in 1..constructed

\* lines 73-75: the call that is refused logs one error and returns False.
RefusedSilently(component) ==
    [component |-> component, registered |-> FALSE, pc |-> "done",
     result |-> "False", trace |-> <<>>]

Refused(component) ==
    [component |-> component, registered |-> FALSE, pc |-> "done",
     result |-> "False", trace |-> <<"error">>]

\* The bag of calls after call r has become call s.
Step(r, s) == (removals (-) SetToBag({r})) (+) SetToBag({s})

\* lines 70-77 and 97: the call up to its first await, _mqtt.unsubscribe.
\* registered remembers whether the component was in the registry then.
RemoveCall(arg) ==
    /\ BagCardinality(removals) < MaxRemovals
    /\ LET component == Resolve(arg)
       IN  removals' = removals (+) SetToBag({
               IF ~isinstance(component)
               THEN Refused(component)
               ELSE [component |-> component,
                     registered |-> component \in ChainSet,
                     pc |-> "unsubscribe", result |-> "running", trace |-> <<>>]})
    /\ UNCHANGED <<_components, _next_component, _init_queue_start, discover,
                   MQTT_DISCOVERY_ENABLED, constructed, joined, drains, initOrder,
                   bus>>
    /\ UNCHANGED <<composer, pms>>

\* lines 97-98: unsubscribe has returned, config._log.asyncLog is awaited.
RemoveUnsubscribed(r) ==
    /\ r.pc = "unsubscribe"
    /\ removals' = Step(r, [r EXCEPT !.pc = "asyncLog",
                                      !.trace = Append(@, "unsubscribe")])
    /\ UNCHANGED <<_components, _next_component, _init_queue_start, discover,
                   MQTT_DISCOVERY_ENABLED, constructed, joined, drains, initOrder,
                   bus>>
    /\ UNCHANGED <<composer, pms>>

\* lines 78-89: _remove has returned; the component is searched in the
\* registry and unlinked, and the call ends without a return statement.
RemoveUnlink(r, trace) ==
    LET u == Unlink(_components, _next_component, r.component)
    IN  /\ _components' = u.head
        /\ _next_component' = u.nxt
        /\ removals' = Step(r, [r EXCEPT
               !.pc = "done",
               !.result = "None",
               !.trace = IF u.found THEN Append(trace, "unlink") ELSE trace])

\* lines 98-102: asyncLog has returned; _discovery(False) is called when
\* discovery is wanted, otherwise _remove returns and the unlink follows.
RemoveLogged(r) ==
    /\ r.pc = "asyncLog"
    /\ LET c == r.component
           trace == Append(r.trace, "log")
       IN  IF DiscoveryWanted(MQTT_DISCOVERY_ENABLED, discover[c])
           THEN /\ bus' = [bus EXCEPT ![c].tombstone = @ + 1]
                /\ removals' = Step(r, [r EXCEPT !.pc = "discovery",
                                         !.trace = Append(trace, "tombstone")])
                /\ UNCHANGED <<_components, _next_component>>
           ELSE /\ RemoveUnlink(r, trace)
                /\ UNCHANGED bus
    /\ UNCHANGED <<_init_queue_start, discover, MQTT_DISCOVERY_ENABLED,
                   constructed, joined, drains, initOrder>>
    /\ UNCHANGED <<composer, pms>>

\* line 102, then lines 78-89: _discovery(False) has returned.
RemoveDiscovered(r) ==
    /\ r.pc = "discovery"
    /\ RemoveUnlink(r, r.trace)
    /\ UNCHANGED <<_init_queue_start, discover, MQTT_DISCOVERY_ENABLED,
                   constructed, joined, drains, initOrder, bus>>
    /\ UNCHANGED <<composer, pms>>

----------------------------------------------------------------------------

Calls == BagToSet(removals)

Next ==
    \/ \E flag \in BOOLEAN : Construct(flag)
    \/ \E t \in DOMAIN drains : DrainStart(t)
    \/ \E t \in DOMAIN drains : HookLogged(t)
    \/ \E t \in DOMAIN drains : HookDiscovered(t)
    \/ \E t \in DOMAIN drains : HookRaises(t)
    \/ \E arg \in Arguments : RemoveCall(arg)
    \/ \E r \in Calls : RemoveUnsubscribed(r)
    \/ \E r \in Calls : RemoveLogged(r)
    \/ \E r \in Calls : RemoveDiscovered(r)

Spec == Init /\ [][Next]_vars

\* The runs in which every invoked hook completes and the scheduler keeps
\* running the drain task: no await of a hook raises, and a drain task that
\* can take a step takes one.  removeComponent is called with component
\* objects: a name that resolves gives the same call, and a refused call
\* touches neither the registry nor the drain.
DrainStep ==
    \/ \E t \in DOMAIN drains : DrainStart(t)
    \/ \E t \in DOMAIN drains : HookLogged(t)
    \/ \E t \in DOMAIN drains : HookDiscovered(t)

NextLive ==
    \/ \E flag \in BOOLEAN : Construct(flag)
    \/ DrainStep
    \/ \E x \in 1..constructed : RemoveCall([type |-> "ComponentBase", v |-> x])
    \/ \E r \in Calls : RemoveUnsubscribed(r)
    \/ \E r \in Calls : RemoveLogged(r)
    \/ \E r \in Calls : RemoveDiscovered(r)

SpecLive == Init /\ [][NextLive]_vars /\ WF_vars(DrainStep)

----------------------------------------------------------------------------
(* The discovery helpers on their own *)

registry ==
    <<_components, _next_component, _init_queue_start, discover,
      MQTT_DISCOVERY_ENABLED, constructed, joined, drains, removals, initOrder, bus>>

\* Any configured prefix and device id; nothing published yet.
InitTopic ==
    /\ NoComponents
    /\ composer \in [prefix : Prefixes, deviceID : DeviceIDs, published : {<<>>}]
    /\ pms = IdlePMS

\* await self._publishDiscovery(component_type, component_topic, unique_name,
\*                              discovery_type, friendly_name)
PublishDiscovery(component_type, unique_name, friendly_name) ==
    /\ Len(composer.published) < MaxPublishes
    /\ composer' = [composer EXCEPT !.published = Append(@,
           [call |-> "_publishDiscovery", component_type |-> component_type,
            unique_name |-> unique_name,
            message |-> _publishDiscovery(component_type, "state", unique_name,
                                          "", friendly_name)])]
    /\ UNCHANGED <<registry, pms>>

\* await self._deleteDiscovery(component_type, unique_name)
DeleteDiscovery(component_type, unique_name) ==
    /\ Len(composer.published) < MaxPublishes
    /\ composer' = [composer EXCEPT !.published = Append(@,
           [call |-> "_deleteDiscovery", component_type |-> component_type,
            unique_name |-> unique_name,
            message |-> _deleteDiscovery(component_type, unique_name)])]
    /\ UNCHANGED <<registry, pms>>

NextTopic ==
    \/ \E ct \in ComponentTypes, n \in UniqueNames, f \in FriendlyNames :
           PublishDiscovery(ct, n, f)
    \/ \E ct \in ComponentTypes, n \in UniqueNames : DeleteDiscovery(ct, n)

SpecTopic == InitTopic /\ [][NextTopic]_vars

----------------------------------------------------------------------------
(* The PMS5003 constructor on its own *)

\* The constructor has been entered with one of the arguments.
InitPMS ==
    /\ NoComponents
    /\ composer = IdleComposer
    /\ pms \in {[arg |-> a, friendly_name |-> a, pc |-> "check",
                 warnings |-> <<>>, sensor_types |-> <<>>] : a \in FriendlyNameArgs}

\* lines 77-86: the checks of friendly_name
CheckFriendlyName ==
    /\ pms.pc = "check"
    /\ pms' =
         IF type(pms.friendly_name) # NoneObject
         THEN IF type(pms.friendly_name) = ListClass
              THEN IF WrongLength(Len(pms.friendly_name.v))
                   THEN [pms EXCEPT !.pc = "loop",
                                    !.warnings = Append(@, "wrong length"),
                                    !.friendly_name = NoneObject]
                   ELSE [pms EXCEPT !.pc = "loop"]
              ELSE [pms EXCEPT !.pc = "loop",
                               !.warnings = Append(@, "unsupported type"),
                               !.friendly_name = NoneObject]
         ELSE [pms EXCEPT !.pc = "loop"]
    /\ UNCHANGED <<registry, composer>>

\* lines 87-91: one pass of "for tp in TYPES"
AddSensorType ==
    /\ pms.pc = "loop"
    /\ LET tp == TYPES[Len(pms.sensor_types) + 1]
           ind == index(TYPES, tp)
       IN  pms' =
             IF pms.friendly_name # NoneObject /\ ind \notin DOMAIN pms.friendly_name.v
             THEN [pms EXCEPT !.pc = "raised"]
             ELSE [pms EXCEPT
                     !.sensor_types = Append(@,
                         [sensor_type |-> tp,
                          friendly_name |-> IF pms.friendly_name # NoneObject
                                            THEN pms.friendly_name.v[ind]
                                            ELSE tp]),
                     !.pc = IF Len(pms.sensor_types) + 1 = Len(TYPES)
                            THEN "done" ELSE "loop"]
    /\ UNCHANGED <<registry, composer>>

NextPMS ==
    \/ CheckFriendlyName
    \/ AddSensorType

SpecPMS == InitPMS /\ [][NextPMS]_vars

----------------------------------------------------------------------------
(* Vocabulary of the properties *)

Running == {"created", "asyncLog", "discovery"}
InHook == {"asyncLog", "discovery"}

\* The drain tasks that exist (created and not yet ended).
AliveDrains == {t \in DOMAIN drains : drains[t].pc \in Running}

\* The drain tasks suspended inside a component's _init_network.
HooksInProgress == {t \in DOMAIN drains : drains[t].pc \in InHook}

Initialised == {initOrder[i] : i \in DOMAIN initOrder}

Objects == 1..constructed

\* No component has been unlinked from the registry.
NoneRemoved == ChainSet = Objects

\* removeComponent has been called on x.
RemovalTarget(x) == \E r \in Calls : r.component = x

\* The removeComponent calls on x that have called _discovery(False).
Tombstoned(x) ==
    [r \in {q \in Calls : /\ q.component = x
                           /\ \E i \in DOMAIN q.trace : q.trace[i] = "tombstone"}
        |-> removals[r]]

IsPrefix(s, t) == Len(s) <= Len(t) /\ \A i \in DOMAIN s : s[i] = t[i]

\* Drain task t invokes a hook in this step.
Invokes(t) == drains'[t] # drains[t] /\ drains'[t].pc = "asyncLog"

\* Drain task t leaves a hook through c._next_component in this step.
Advances(t) ==
    /\ drains[t].pc \in InHook
    /\ drains'[t] # drains[t]
    /\ drains'[t].pc \in {"asyncLog", "done"}

----------------------------------------------------------------------------
(* Properties *)

\* C1: at most one __initNetworkProcess task exists and at most one
\* _init_network hook is in progress, in every reachable state.
C1_SingleDrain ==
    /\ Cardinality(AliveDrains) <= 1
    /\ Cardinality(HooksInProgress) <= 1

\* Two or more components were constructed before the first drain step.
C1_Witness ==
    /\ constructed >= 2
    /\ Len(drains) = 1
    /\ drains[1].pc = "created"

\* C2: hooks are invoked in registration order, one after the other, and
\* when no component is removed and the drain is over, the invocation
\* sequence is the whole registration sequence 1, 2, ..., constructed.
C2_FifoInitOrder ==
    /\ \A i, j \in DOMAIN initOrder : i < j => initOrder[i] < initOrder[j]
    /\ \A t \in HooksInProgress : drains[t].c = initOrder[Len(initOrder)]
    /\ NoneRemoved => \A i \in DOMAIN initOrder : initOrder[i] = i
    /\ NoneRemoved /\ AliveDrains = {} => Len(initOrder) = constructed

\* C3: when the drain has returned to idle with every hook completed, each
\* component that was constructed during a drain and that removeComponent
\* was never called on has had its hook invoked; and such a component never
\* starts a second drain.
C3_JoinedIsReached ==
    /\ Cardinality(AliveDrains) <= 1
    /\ \A x \in Objects :
          (/\ joined[x]
           /\ ~RemovalTarget(x)
           /\ _init_queue_start = None
           /\ \A t \in DOMAIN drains : drains[t].pc # "failed")
          => x \in Initialised

\* C4: the drain neither invokes the hook of a component that is no longer
\* in the registry nor reads the _next_component of such a component.
C4_NoDerefOfRemoved ==
    [][\A t \in DOMAIN drains :
          /\ Invokes(t) => drains'[t].c \in ChainSet
          /\ Advances(t) => drains[t].c \in ChainSet]_vars

\* C5: the registry chain ends in None, holds no component twice, and holds
\* exactly the constructed components on which no removeComponent call has
\* completed.
C5_RegistryIntegrity ==
    LET ch == Chain
    IN  /\ Len(ch) <= MaxComponents
        /\ \A i, j \in DOMAIN ch : i # j => ch[i] # ch[j]
        /\ {ch[i] : i \in DOMAIN ch}
               = {x \in Objects :
                     ~\E r \in Calls : r.component = x /\ r.pc = "done"}

\* A component between two registered ones has been removed.
C5_Witness ==
    \E r \in Calls :
        /\ r.pc = "done"
        /\ r.component \in Objects
        /\ \E x, y \in ChainSet : x < r.component /\ r.component < y

C7_ReturnsTrue ==
    \A r \in Calls :
        (r.registered /\ r.pc = "done") =>
            r.result = "True" /\ r.component \notin ChainSet

\* C8: a removeComponent call whose argument is no component has returned
\* False with one error logged and nothing else done, and the step of the
\* call leaves the registry, the drain pointer and the bus as they were.
C8_RefusesNonComponent ==
    [][\A r \in BagToSet(removals') :
          r.component \in {None, NotAComponent} =>
              /\ r.pc = "done" /\ r.result = "False" /\ r.trace = <<"error">>
              /\ CopiesIn(r, removals') > CopiesIn(r, removals) =>
                    UNCHANGED <<_components, _next_component, _init_queue_start,
                                drains, bus>>]_vars

\* Both kinds of refused argument have been seen while a drain was running.
C8_Witness ==
    /\ \E r \in Calls : r.component = None
    /\ \E r \in Calls : r.component = NotAComponent
    /\ _init_queue_start # None
    /\ _components # None

\* C9: a removeComponent call on a component object that was not in the
\* registry has logged an error and returned False.
C9_UnregisteredIsRefused ==
    \A r \in Calls :
        (r.component \in Objects /\ ~r.registered /\ r.pc = "done") =>
            r.result = "False" /\ r.trace = <<"error">>

\* C10: a raising hook does not end the drain: when no drain task is left
\* and removeComponent was never called, every constructed component has had
\* its hook invoked.
C10_FailureDoesNotAbort ==
    (AliveDrains = {} /\ removals = EmptyBag) => Initialised = Objects

\* C11: the drain pointer is None exactly when no drain task exists.
C11_IdleIffNoDrain ==
    (_init_queue_start = None) <=> (AliveDrains = {})

C15_RegisterFrame ==
    [][constructed' # constructed =>
          /\ Chain' = Append(Chain, constructed')
          /\ _init_queue_start # None => _init_queue_start' = _init_queue_start]_vars

\* The third component registered behind the second during a drain, after
\* the first had been removed.
C15_Witness ==
    /\ constructed = 3
    /\ joined[3]
    /\ Chain = <<2, 3>>

\* C16: the step of removeComponent(X) that ends the call takes exactly X
\* out of the registry chain and leaves the others in their order.
C16_RemoveFrame ==
    [][\A r \in BagToSet(removals') :
          (/\ r.component \in Objects
           /\ r.pc = "done"
           /\ CopiesIn(r, removals') > CopiesIn(r, removals))
          => Chain' = SelectSeq(Chain, LAMBDA y : y # r.component)]_vars

\* The second of three components was removed by a call that found it.
C16_Witness ==
    /\ Chain = <<1, 3>>
    /\ \E r \in Calls :
          /\ r.component = 2
          /\ r.registered
          /\ r.pc = "done"
          /\ r.trace[Len(r.trace)] = "unlink"

\* C18: no component has its _init_network hook invoked twice.
C18_InitAtMostOnce ==
    \A i, j \in DOMAIN initOrder : i # j => initOrder[i] # initOrder[j]

\* A second drain has started after the first one ended, a removal has
\* completed, and hooks were invoked in both drains.
C18_Witness ==
    /\ Len(drains) >= 2
    /\ drains[1].pc = "done"
    /\ drains[2].pc \in InHook
    /\ Len(initOrder) >= 2
    /\ \E r \in Calls : r.pc = "done" /\ r.component \in Objects

\* C19: _discovery(True) is never called on a component on which
\* _discovery(False) has been called.
C19_NoAnnounceAfterTombstone ==
    [][\A c \in Ids :
          bus'[c].announce > bus[c].announce => bus[c].tombstone = 0]_vars

\* C17: when every hook completes, a drain that is in progress ends with
\* the pointer reset to None; the pointer of a drain in progress is only
\* ever reset; a constructor that finds the pointer None sets it to its
\* component and creates a drain task; and a drain task starts with the
\* component the pointer holds.
C17_DrainEndsAndRestarts ==
    /\ (_init_queue_start # None) ~> (_init_queue_start = None)
    /\ [][/\ _init_queue_start # None =>
                _init_queue_start' \in {_init_queue_start, None}
          /\ (constructed' # constructed /\ _init_queue_start = None) =>
                /\ _init_queue_start' = constructed'
                /\ drains' = Append(drains, [pc |-> "created", c |-> None])
          /\ \A t \in DOMAIN drains :
                (drains[t].pc = "created" /\ drains'[t].pc # "created") =>
                    /\ drains'[t].pc = "asyncLog"
                    /\ drains'[t].c = _init_queue_start]_vars

\* The first drain has ended and a component constructed while idle has
\* become the start of a second drain.
C17_Witness ==
    /\ Len(drains) = 2
    /\ drains[1].pc = "done"
    /\ drains[2].pc = "created"
    /\ _init_queue_start = constructed

\* C13: every discovery message goes to prefix/componentType/deviceID/
\* uniqueName/config, built from the configuration and the call's component
\* type and unique name; so two calls with the same component type and
\* unique name, an announce and a tombstone among them, use the same topic.
C13_DiscoveryTopic ==
    LET pub == composer.published
    IN  /\ \A i \in DOMAIN pub :
               pub[i].message.topic =
                   <<composer.prefix, "/", pub[i].component_type, "/",
                     composer.deviceID, "/", pub[i].unique_name, "/config">>
        /\ \A i, j \in DOMAIN pub :
               (/\ pub[i].component_type = pub[j].component_type
                /\ pub[i].unique_name = pub[j].unique_name)
                   => pub[i].message.topic = pub[j].message.topic

\* An announce and then a tombstone of the same component type and name.
C13_Witness ==
    /\ Len(composer.published) >= 2
    /\ composer.published[1].call = "_publishDiscovery"
    /\ composer.published[2].call = "_deleteDiscovery"
    /\ composer.published[1].component_type = composer.published[2].component_type
    /\ composer.published[1].unique_name = composer.published[2].unique_name
    /\ composer.prefix = "ha"

\* The names every type is registered with when friendly_name is not used.
TypeNames == [i \in DOMAIN TYPES |-> [sensor_type |-> TYPES[i], friendly_name |-> TYPES[i]]]

\* A friendly_name that is a configuration error: a list of the wrong
\* length, or a value that is neither a list nor the default None.
ConfigurationError(a) ==
    \/ a.type = "list" /\ Len(a.v) # ExpectedLen
    \/ a.type \notin {"list", "NoneType"}

\* C14: a friendly_name of the wrong length or of a non-list type never
\* makes the constructor raise; once the constructor is past its loop it has
\* logged exactly one warning and registered all 12 types with their own names.
C14_ConfigErrorsNotFatal ==
    ConfigurationError(pms.arg) =>
        /\ pms.pc # "raised"
        /\ pms.pc = "done" => (Len(pms.warnings) = 1 /\ pms.sensor_types = TypeNames)
        /\ pms.pc = "loop" => Len(pms.warnings) = 1

\* A list that is one entry too long has been handled.
C14_Witness ==
    /\ pms.arg.type = "list"
    /\ Len(pms.arg.v) = ExpectedLen + 1
    /\ pms.pc = "done"
    /\ pms.warnings = <<"wrong length">>

\* C20: with the default None no warning is logged and every type gets its
\* type name; with a list of exactly 12 entries no warning is logged and
\* type i gets entry i.
C20_DefaultAndFullList ==
    /\ (pms.arg = NoneObject /\ pms.pc \in {"loop", "done", "raised"}) =>
           /\ pms.warnings = <<>>
           /\ pms.pc = "done" => pms.sensor_types = TypeNames
    /\ (pms.arg.type = "list" /\ Len(pms.arg.v) = ExpectedLen /\ pms.pc \in {"loop", "done", "raised"}) =>
           /\ pms.warnings = <<>>
           /\ pms.pc = "done" =>
                  pms.sensor_types =
                      [i \in DOMAIN TYPES |->
                          [sensor_type |-> TYPES[i], friendly_name |-> pms.arg.v[i]]]

====
